---- MODULE Spec2Model ----
(***************************************************************************)
(* Arena simulator (theAreanaSim/generateArenaSim.py): the day loop of     *)
(* run_simulation, the per-slot decision chain of generate_event, the      *)
(* pacing functions and the template normalisers.                          *)
(*                                                                         *)
(* Probabilities are integers in percent (0.55 is 55); a draw of           *)
(* rng.random() is a value of Rolls, in percent too, so "random() < p" is  *)
(* "r < p".  Quantities the code computes as floats are exact rationals    *)
(* [n, d] here (d > 0), compared by cross multiplication.  A template text *)
(* is a sequence of tokens: literal text or a {placeholder}.               *)
(***************************************************************************)
EXTENDS Integers, Sequences, FiniteSets, TLC

\* ---------------------------------------------------------------- bounds
MaxDay == 2
\* the days after MaxDay are played with the pacing of a day up to LateHorizon
LateHorizon == 20

\* ------------------------------------------------------ program constants
MAX_INVENTORY_SIZE == 10
MAX_START_ITEMS == 0

\* ------------------------------------------------------------- utilities
\* The arithmetic helpers bind their arguments in a set constructor, so that
\* TLC evaluates each argument once however deeply the calls are nested.
Only(S) == CHOOSE x \in S : TRUE
Max2(a, b) == Only({IF x >= y THEN x ELSE y : x \in {a}, y \in {b}})
Min2(a, b) == Only({IF x <= y THEN x ELSE y : x \in {a}, y \in {b}})
Range(s) == {s[i] : i \in 1..Len(s)}
Contains(s, x) == \E i \in 1..Len(s) : s[i] = x

RECURSIVE SumSeq(_)
SumSeq(s) == IF s = <<>> THEN 0 ELSE s[1] + SumSeq(Tail(s))

RECURSIVE Flatten(_)
Flatten(ss) == IF ss = <<>> THEN <<>> ELSE ss[1] \o Flatten(Tail(ss))

\* variant: every occurrence of x is dropped
RemoveAll(s, x) == SelectSeq(s, LAMBDA y : y # x)

\* list.remove(x): drops the first occurrence of x
RECURSIVE RemoveFirst(_, _)
RemoveFirst(s, x) ==
    IF s = <<>> THEN <<>>
    ELSE IF s[1] = x THEN Tail(s)
    ELSE <<s[1]>> \o RemoveFirst(Tail(s), x)

\* rng.sample(population, k): every ordered selection of k distinct positions
Samples(pop, k) ==
    {[i \in 1..k |-> pop[f[i]]] :
        f \in {g \in [1..k -> 1..Len(pop)] :
                 \A a, b \in 1..k : a # b => g[a] # g[b]}}

\* rationals
Q(n, d) == [n |-> n, d |-> d]
QLe(a, b) == \E x \in {a}, y \in {b} : x.n * y.d <= y.n * x.d
QLt(a, b) == \E x \in {a}, y \in {b} : x.n * y.d < y.n * x.d
QMax(a, b) == Only({IF QLe(y, x) THEN x ELSE y : x \in {a}, y \in {b}})
QMin(a, b) == Only({IF QLe(x, y) THEN x ELSE y : x \in {a}, y \in {b}})
QMul(a, b) == Only({Q(x.n * y.n, x.d * y.d) : x \in {a}, y \in {b}})

\* math.ceil(n / d) for n >= 0, d > 0
Ceil(n, d) == Only({(x + y - 1) \div y : x \in {n}, y \in {d}})

\* round(n / d) for n >= 0, d > 0: Python rounds halves to the even integer
RoundParts(q, r, d) ==
    IF 2 * r < d THEN q
    ELSE IF 2 * r > d THEN q + 1
    ELSE IF q % 2 = 0 THEN q ELSE q + 1
Round(n, d) == Only({RoundParts(x \div y, x % y, y) : x \in {n}, y \in {d}})

clampInt(value, low, high) == Max2(low, Min2(high, value))
clamp(value, low, high) == QMax(low, QMin(high, value))

\* ------------------------------------------------------------- templates
Lit(s) == [ph |-> FALSE, s |-> s]
Ph(s) == [ph |-> TRUE, s |-> s]

\* the names ensure_victim_keys generates: "victim", "victim2", "victim3", ...
VictimNameTable ==
    <<"victim", "victim2", "victim3", "victim4", "victim5",
      "victim6", "victim7", "victim8", "victim9">>

\* key.startswith("victim"), over the placeholder names the templates use
StartsWithVictim(key) == key \in Range(VictimNameTable) \cup {"victims", "victim_b"}

RECURSIVE Dedup(_)
Dedup(s) ==
    IF s = <<>> THEN <<>>
    ELSE LET rest == Dedup(SubSeq(s, 1, Len(s) - 1))
             x == s[Len(s)]
         IN  IF Contains(rest, x) THEN rest ELSE Append(rest, x)

extract_placeholders(text) ==
    LET phs == SelectSeq(text, LAMBDA t : t.ph)
    IN  [i \in 1..Len(phs) |-> phs[i].s]

infer_additional_roles(text, base_keys) ==
    Dedup(SelectSeq(extract_placeholders(text), LAMBDA k : k \notin base_keys))

infer_victim_roles(text) ==
    Dedup(SelectSeq(extract_placeholders(text), StartsWithVictim))

RECURSIVE EnsureLoop(_, _, _)
EnsureLoop(keys, candidates, count) ==
    IF candidates = <<>> \/ Len(keys) >= count THEN keys
    ELSE IF Contains(keys, candidates[1])
         THEN EnsureLoop(keys, Tail(candidates), count)
         ELSE EnsureLoop(Append(keys, candidates[1]), Tail(candidates), count)

\* variant: candidates are appended without the test "not in keys"
ensure_victim_keys_repeating(base_keys, count) ==
    LET candidates == SubSeq(VictimNameTable, 1, Max2(1, count + 4))
        keys == base_keys \o SubSeq(candidates, 1, Max2(0, count - Len(base_keys)))
    IN  SubSeq(keys, 1, Min2(Len(keys), count))

ensure_victim_keys(base_keys, count) ==
    LET candidates == SubSeq(VictimNameTable, 1, Max2(1, count + 4))
        keys == EnsureLoop(base_keys, candidates, count)
    IN  SubSeq(keys, 1, Min2(Len(keys), count))

\* A raw entry is a record: a bare string has only the field text; a
\* structured entry has the field dict and the optional keys it carries.
IsDict(entry) == "dict" \in DOMAIN entry

\* variant: only the key "victims" is read
ExplicitCountVictimsOnly(entry) ==
    IF IsDict(entry) /\ "victims" \in DOMAIN entry THEN <<entry.victims>> ELSE <<>>

\* entry.get("victim_count", entry.get("victims")), as a list of no or one number
ExplicitCount(entry) ==
    IF ~IsDict(entry) THEN <<>>
    ELSE IF "victim_count" \in DOMAIN entry THEN <<entry.victim_count>>
    ELSE IF "victims" \in DOMAIN entry THEN <<entry.victims>>
    ELSE <<>>

normalize_lethal_entry(entry) ==
    LET victim_roles == infer_victim_roles(entry.text)
        inferred == IF Len(victim_roles) > 0 THEN Len(victim_roles) ELSE 1
        explicit == ExplicitCount(entry)
        victim_count == IF explicit # <<>> THEN Max2(1, explicit[1]) ELSE inferred
    IN  [text |-> entry.text,
         victim_count |-> victim_count,
         victim_keys |-> ensure_victim_keys(victim_roles, victim_count)]

normalize_non_lethal_entry(entry) ==
    LET base_keys == {"person"}
        roles ==
            \* an empty extra_roles list is falsy and counts as absent
            IF IsDict(entry) /\ "extra_roles" \in DOMAIN entry /\ entry.extra_roles # <<>>
            THEN SelectSeq(entry.extra_roles, LAMBDA r : r \notin base_keys)
            ELSE infer_additional_roles(entry.text, base_keys)
    IN  [text |-> entry.text, roles |-> roles]

\* variant: the item is consumed when the template or the rule says so
ConsumesEither(event, default_consumes) ==
    default_consumes \/ (IsDict(event) /\ "consumes" \in DOMAIN event /\ event.consumes)

\* default_consumes if consumes is None else bool(consumes)
ConsumesFlag(event, default_consumes) ==
    IF IsDict(event) /\ "consumes" \in DOMAIN event
    THEN event.consumes
    ELSE default_consumes

normalize_special_event(event, default_consumes) ==
    LET victim_roles == infer_victim_roles(event.text)
        lethal == IsDict(event) /\ "lethal" \in DOMAIN event /\ event.lethal
        explicit ==
            IF ExplicitCount(event) # <<>>
            THEN Max2(0, ExplicitCount(event)[1])
            ELSE Len(victim_roles)
        victim_count ==
            IF lethal /\ explicit = 0
            THEN Max2(1, IF Len(victim_roles) > 0 THEN Len(victim_roles) ELSE 1)
            ELSE explicit
        consumes == ConsumesFlag(event, default_consumes)
    IN  [text |-> event.text,
         lethal |-> lethal,
         victim_keys |-> ensure_victim_keys(victim_roles, victim_count),
         victim_count |-> victim_count,
         consumes |-> consumes]

\* item -> [events, consumes]; a later rule for the same item replaces an
\* earlier one, a rule without item or events is skipped
RECURSIVE build_map(_)
build_map(rules) ==
    IF rules = <<>> THEN <<>>
    ELSE LET entry == rules[Len(rules)]
             rest == build_map(SubSeq(rules, 1, Len(rules) - 1))
             kept == SelectSeq(rest, LAMBDA p : p.item # entry.item)
         IN  IF entry.events = <<>> THEN rest
             ELSE Append(kept,
                    [item |-> entry.item,
                     events |-> [i \in 1..Len(entry.events) |->
                                   normalize_special_event(entry.events[i], entry.consumes)],
                     consumes |-> entry.consumes])

build_special_item_map(config) == build_map(config.special_item_events)

InMap(map, item) == \E i \in 1..Len(map) : map[i].item = item
Lookup(map, item) == map[CHOOSE i \in 1..Len(map) : map[i].item = item]

\* str.format_map over a dict whose __missing__ returns the token itself
format_template_text(template, replacements) ==
    [i \in 1..Len(template) |->
        IF template[i].ph /\ template[i].s \in DOMAIN replacements
        THEN Lit(replacements[template[i].s])
        ELSE template[i]]

\* ---------------------------------------------------------- configuration
\* rng.random() in percent; 0 and 99 stand for the ends of [0, 1)
Rolls == {0, 50, 99}

LethalOne == [text |-> <<Ph("killer"), Lit(" ambushes "), Ph("victim")>>]
LethalTwo ==
    [text |-> <<Ph("killer"), Lit(" traps "), Ph("victim"), Lit(" and "), Ph("victim2")>>]
NonLethalPlain == [text |-> <<Ph("person"), Lit(" scouts the cornucopia")>>]
NonLethalTrio ==
    [text |-> <<Ph("person"), Lit(" camps with "), Ph("ally"), Lit(" and "), Ph("friend")>>]
InventoryText == <<Ph("person"), Lit(" sets a "), Ph("item")>>
LootText == <<Ph("person"), Lit(" scavenges a "), Ph("item")>>
FallbackLootText == <<Ph("person"), Lit(" quietly pockets a "), Ph("item")>>
FallbackLethal == [text |-> <<Ph("killer"), Lit(" eliminates "), Ph("victim")>>]
FallbackNonLethal == [text |-> <<Ph("person"), Lit(" passes the time in silence")>>]
VictoryText ==
    <<Ph("name"), Lit(" emerges victorious with "), Ph("kills"), Lit(" elimination(s)!")>>

\* SimulationConfig: the default chances and day window, short days, no items
BaseConfig ==
    [lethal_event_chance |-> 55,
     inventory_event_chance |-> 35,
     loot_event_chance |-> 25,
     special_item_event_chance |-> 40,
     min_events_per_day |-> 1,
     max_events_per_day |-> 1,
     bloodbath_event_range |-> <<1, 1>>,
     bloodbath_lethal_bonus |-> 25,
     target_min_days |-> 7,
     target_max_days |-> 12,
     inventory_items |-> <<>>,
     lethal_events |-> <<LethalOne>>,
     non_lethal_events |-> <<NonLethalPlain>>,
     inventory_events |-> <<InventoryText>>,
     loot_events |-> <<LootText>>,
     item_loot_text |-> <<>>,
     special_item_events |-> <<>>,
     victory_template |-> VictoryText]

\* lethal templates for two victims, fallback templates with two bystanders
CfgMassacre ==
    [BaseConfig EXCEPT !.lethal_events = <<LethalTwo>>,
                       !.non_lethal_events = <<NonLethalTrio>>]

\* a special item whose rule consumes it by default
BombBlast ==
    [dict |-> TRUE, lethal |-> TRUE,
     text |-> <<Ph("person"), Lit(" detonates a "), Ph("item"), Lit(" under "),
                Ph("victim"), Lit(" and "), Ph("victim2")>>]
BombShow ==
    [text |-> <<Ph("person"), Lit(" shows a "), Ph("item"), Lit(" to "), Ph("victim")>>]
BombPolish ==
    [dict |-> TRUE, consumes |-> FALSE,
     text |-> <<Ph("person"), Lit(" polishes a "), Ph("item")>>]

BombRule(events) == [item |-> "bomb", consumes |-> TRUE, events |-> events]

CfgBomb ==
    [BaseConfig EXCEPT !.inventory_items = <<"bomb">>,
                       !.special_item_events =
                           <<BombRule(<<BombBlast, BombShow, BombPolish>>)>>]

\* a rule that keeps its item, with one template that burns it all the same
FlareLight ==
    [text |-> <<Ph("person"), Lit(" lights the camp with a "), Ph("item")>>]
FlareBurn ==
    [dict |-> TRUE, consumes |-> TRUE,
     text |-> <<Ph("person"), Lit(" burns the last "), Ph("item")>>]

CfgFlare ==
    [BaseConfig EXCEPT !.inventory_items = <<"flare">>,
                       !.special_item_events =
                           <<[item |-> "flare", consumes |-> FALSE,
                              events |-> <<FlareLight, FlareBurn>>]>>]

\* everybody loots, whoever holds a bomb may detonate it
CfgBlast ==
    [BaseConfig EXCEPT !.inventory_items = <<"rock", "bomb">>,
                       !.loot_event_chance = 100,
                       !.bloodbath_event_range = <<2, 2>>,
                       !.special_item_events = <<BombRule(<<BombBlast>>)>>]

\* every slot loots until the pack is full, then always plays with an item
CfgHoard ==
    [BaseConfig EXCEPT !.inventory_items = <<"rock">>,
                       !.loot_event_chance = 100,
                       !.inventory_event_chance = 100,
                       !.bloodbath_event_range = <<10>>]

\* a configured lethal chance of zero
CfgPacifist ==
    [BaseConfig EXCEPT !.lethal_event_chance = 0, !.bloodbath_lethal_bonus = 0]

\* rosters of distinct, non-empty names, as load_names yields them
\* a victory text with a placeholder of its own
CfgHerald ==
    [BaseConfig EXCEPT !.victory_template =
        <<Lit("All hail "), Ph("champion"), Lit(", "), Ph("kills"), Lit(" kill(s)")>>]

NamePool == <<"Ann", "Bo", "Cy">>
Roster(n) == SubSeq(NamePool, 1, n)

Scenario(c, n) == [config |-> c, names |-> Roster(n)]

Scenarios ==
    {Scenario(BaseConfig, n) : n \in 0..3}
    \cup {Scenario(CfgMassacre, n) : n \in 2..3}
    \cup {Scenario(CfgBomb, 2), Scenario(CfgBlast, 3),
          Scenario(CfgHoard, 2), Scenario(CfgPacifist, 2), Scenario(CfgHerald, 2),
          Scenario(CfgFlare, 2)}

\* ----------------------------------------------------------------- pacing
\* variant: the roster ratio is not clamped to [0, 1]
determine_desired_total_days_unclamped(total_tributes, config) ==
    LET min_days == Max2(1, config.target_min_days)
        max_days == Max2(min_days, config.target_max_days)
        span == max_days - min_days
        ratio22 == IF total_tributes > 2 THEN total_tributes - 2 ELSE 0
    IN  IF total_tributes <= 1 \/ min_days = max_days THEN min_days
        ELSE Round(min_days * 22 + span * ratio22, 22)

determine_desired_total_days(total_tributes, config) ==
    LET min_days == Max2(1, config.target_min_days)
        max_days == Max2(min_days, config.target_max_days)
        span == max_days - min_days
        \* ratio = clamp((total - 2) / 22, 0, 1), in 22nds
        ratio22 == IF total_tributes > 2 THEN clampInt(total_tributes - 2, 0, 22) ELSE 0
    IN  IF total_tributes <= 1 \/ min_days = max_days THEN min_days
        ELSE Round(min_days * 22 + span * ratio22, 22)

\* config.lethal_event_chance, plus the bloodbath bonus on day 1 (at most 1.0)
BaseChance(day_number, config) ==
    IF day_number = 1
    THEN Min2(100, config.lethal_event_chance + config.bloodbath_lethal_bonus)
    ELSE config.lethal_event_chance

required_events_for_progress(day_number, alive_count, desired_days, config) ==
    LET remaining_days == Max2(1, desired_days - (day_number - 1))
        needed_eliminations == Max2(0, alive_count - 1)
        target_kills == Max2(1, Ceil(needed_eliminations, remaining_days))
        effective_chance == clampInt(BaseChance(day_number, config), 10, 95)
    IN  IF alive_count <= 1 THEN 0
        ELSE Ceil(target_kills * 100, effective_chance)

\* variant: the product of pressure and late-game bonus is not clamped
compute_death_pressure_raw(alive_count, day_number, daily_events, desired_days, config) ==
    LET remaining_days == Max2(1, desired_days - (day_number - 1))
        needed_eliminations == Max2(0, alive_count - 1)
        expected100 == daily_events * clampInt(BaseChance(day_number, config), 5, 95)
        pressure == Q(needed_eliminations * 100, remaining_days * Max2(expected100, 10))
        late_game_bonus == Q(2 + Max2(0, day_number - 10), 2)
    IN  IF alive_count <= 1 \/ daily_events <= 0 THEN Q(1, 1)
        ELSE QMul(pressure, late_game_bonus)

compute_death_pressure(alive_count, day_number, daily_events, desired_days, config) ==
    LET remaining_days == Max2(1, desired_days - (day_number - 1))
        needed_eliminations == Max2(0, alive_count - 1)
        \* expected_kills = daily_events * clamp(base_chance, 0.05, 0.95), in percent
        expected100 == daily_events * clampInt(BaseChance(day_number, config), 5, 95)
        \* target_kills / max(expected_kills, 0.1)
        pressure == Q(needed_eliminations * 100, remaining_days * Max2(expected100, 10))
        \* 1.0 + max(0, day_number - 10) * 0.5
        late_game_bonus == Q(2 + Max2(0, day_number - 10), 2)
    IN  IF alive_count <= 1 \/ daily_events <= 0 THEN Q(1, 1)
        ELSE clamp(QMul(pressure, late_game_bonus), Q(3, 5), Q(4, 1))

\* variant: the target is not capped by the number of living tributes
determine_event_count_uncapped(day_number, alive_count, total_tributes, config, desired_days) ==
    LET kill_pressure_events ==
            required_events_for_progress(day_number, alive_count, desired_days, config)
        values == IF Len(config.bloodbath_event_range) = 1
                  THEN config.bloodbath_event_range \o config.bloodbath_event_range
                  ELSE config.bloodbath_event_range
        low == Max2(config.min_events_per_day, values[1])
        high == Max2(low, values[2])
        span == Max2(0, config.max_events_per_day - config.min_events_per_day)
        base == config.min_events_per_day
                  + Max2(0, Round(span * alive_count, Max2(1, total_tributes)))
        jitters == IF span # 0 THEN {-1, 0, 1} ELSE {0}
        soft_cap == Max2(Min2(8, alive_count), kill_pressure_events)
    IN  IF day_number = 1 /\ config.bloodbath_event_range # <<>>
        THEN low..high
        ELSE {Max2(config.min_events_per_day,
                   Min2(Max2(base + jitter, kill_pressure_events), soft_cap)) :
                 jitter \in jitters}

\* the values determine_event_count can return, one per outcome of its draw
determine_event_count(day_number, alive_count, total_tributes, config, desired_days) ==
    LET kill_pressure_events ==
            required_events_for_progress(day_number, alive_count, desired_days, config)
        values == IF Len(config.bloodbath_event_range) = 1
                  THEN config.bloodbath_event_range \o config.bloodbath_event_range
                  ELSE config.bloodbath_event_range
        low == Max2(config.min_events_per_day, values[1])
        high == Max2(low, values[2])
        span == Max2(0, config.max_events_per_day - config.min_events_per_day)
        \* density = alive_count / max(1, total_tributes)
        base == config.min_events_per_day
                  + Max2(0, Round(span * alive_count, Max2(1, total_tributes)))
        jitters == IF span # 0 THEN {-1, 0, 1} ELSE {0}
        soft_cap == Max2(Min2(8, alive_count), kill_pressure_events)
    IN  IF day_number = 1 /\ config.bloodbath_event_range # <<>>
        THEN low..high
        ELSE {Max2(config.min_events_per_day,
                   Min2(Min2(Max2(base + jitter, kill_pressure_events), soft_cap),
                        alive_count)) : jitter \in jitters}

\* variant: no lower clamp on the lethal probability
LethalChanceNoFloor(day_number, pressure, config) ==
    QMin(Q(95, 100), QMul(Q(BaseChance(day_number, config), 100), pressure))

\* the lethal probability of a slot: clamp(lethal_chance * death_pressure, 0.05, 0.95)
LethalChance(day_number, pressure, config) ==
    clamp(QMul(Q(BaseChance(day_number, config), 100), pressure), Q(5, 100), Q(95, 100))

\* rng.random() < chance, for some draw / for no draw
CanHit(chance) == {r \in Rolls : r < chance} # {}
CanMiss(chance) == {r \in Rolls : ~(r < chance)} # {}

\* ------------------------------------------------------------------ state

VARIABLES
    names,           \* the roster handed to run_simulation
    config,          \* the SimulationConfig of the run
    tributes,        \* the Tribute objects, in roster order
    total_tributes,  \* len(tributes), taken once before the loop
    special_item_map,\* build_special_item_map(config), built once before the loop
    desired_days,    \* determine_desired_total_days(...), taken once before the loop
    days,            \* the day records appended so far
    day_counter,
    events_today,
    fallen_today,
    daily_target,
    death_pressure,
    slot,            \* iterations of the slot loop done today
    draw,            \* what the random draws of the last slot decided
    pc,              \* "loop", "slots", "endday", "done", or "raised" after an exception
    result,          \* the value run_simulation returns, once pc = "done"
    probe            \* the last direct call of a helper function: arguments and value

\* the variables of a run of run_simulation
run == <<names, config, tributes, total_tributes, special_item_map, desired_days,
         days, day_counter, events_today, fallen_today,
         daily_target, death_pressure, slot, draw, pc, result>>

vars == <<run, probe>>

\* what run_simulation sets once and never assigns again
setup == <<names, config, total_tributes, special_item_map, desired_days>>

\* alive(): the living tributes, as positions in roster order
AliveIn(ts) ==
    LET idx == [i \in 1..Len(ts) |-> i]
    IN  SelectSeq(idx, LAMBDA i : ts[i].alive)
alive == AliveIn(tributes)
AliveCount == Len(alive)

NoDraw == [step |-> "none", actor |-> 0, need |-> 0, avail |-> 0]
NoProbe == [op |-> "none"]

\* Tribute(name=n, inventory=assign_inventory(rng, items))
assign_inventory(items) ==
    IF items = <<>> THEN {<<>>}
    ELSE UNION {[1..count -> Range(items)] : count \in 0..MAX_START_ITEMS}

\* run_simulation up to the loop, called with scenario sc
Start(sc) ==
    /\ names = sc.names
    /\ config = sc.config
    /\ \E inv \in [1..Len(sc.names) -> assign_inventory(sc.config.inventory_items)] :
         tributes = [i \in 1..Len(sc.names) |->
                       [name |-> sc.names[i], alive |-> TRUE, kills |-> 0,
                        inventory |-> inv[i]]]
    /\ total_tributes = Len(sc.names)
    /\ special_item_map = build_special_item_map(sc.config)
    /\ desired_days = determine_desired_total_days(Len(sc.names), sc.config)
    /\ days = <<>>
    /\ day_counter = 0
    /\ events_today = <<>>
    /\ fallen_today = <<>>
    /\ daily_target = 0
    /\ death_pressure = Q(1, 1)
    /\ slot = 0
    /\ draw = NoDraw
    /\ pc = "loop"
    /\ result = [winner |-> <<>>]

Init == probe = NoProbe /\ \E sc \in Scenarios : Start(sc)

\* -------------------------------------------------------- run_simulation
\* In the actions a value that is computed once and used several times is
\* bound by "\E x \in {e}", which makes TLC evaluate e once.

\* one pass of "while len(alive()) > 1" up to the slot loop
StartDay ==
    /\ pc = "loop"
    /\ AliveCount > 1
    /\ day_counter < MaxDay
    /\ \E alive_count \in {AliveCount} :
       \E target \in determine_event_count(day_counter + 1, alive_count, total_tributes,
                                            config, desired_days) :
         /\ daily_target' = target
         /\ death_pressure' = compute_death_pressure(alive_count, day_counter + 1, target,
                                                     desired_days, config)
         /\ pc' = IF target > 0 THEN "slots" ELSE "endday"
    /\ day_counter' = day_counter + 1
    /\ events_today' = <<>>
    /\ fallen_today' = <<>>
    /\ slot' = 0
    /\ draw' = NoDraw
    /\ UNCHANGED <<setup, probe, tributes, days, result>>

\* variant: only the first victim of an event is merged (meta "victim")
merge_fallen_first(fallen, victims) ==
    IF victims = <<>> \/ victims[1] = "" \/ Contains(fallen, victims[1]) THEN fallen
    ELSE Append(fallen, victims[1])

\* "if name and name not in fallen_today: fallen_today.append(name)"
RECURSIVE merge_fallen(_, _)
merge_fallen(fallen, victims) ==
    IF victims = <<>> THEN fallen
    ELSE merge_fallen(
            IF victims[1] # "" /\ ~Contains(fallen, victims[1])
            THEN Append(fallen, victims[1]) ELSE fallen,
            Tail(victims))

LethalTypes == {"lethal", "item-special lethal"}

\* variant: the slot loop runs its whole budget
LoopBreaksNever(produced, ts) == FALSE

\* "if len(alive()) <= 1: break", reached only with an event
LoopBreaks(produced, ts) == produced # <<>> /\ Len(AliveIn(ts)) <= 1

\* variant: the loop runs one slot past the budget
BudgetSpentLate(used) == used > daily_target

\* "for _ in range(daily_target)" has run out after `used` iterations
BudgetSpent(used) == used >= daily_target

\* the rest of one slot-loop iteration, after generate_event returned
\* `produced` (no event or one) and left the tributes as `ts`
AfterEvent(produced, ts, d) ==
    /\ tributes' = ts
    /\ events_today' = events_today \o produced
    /\ fallen_today' =
         IF produced # <<>> /\ produced[1].type \in LethalTypes
         THEN merge_fallen(fallen_today, produced[1].meta.victims)
         ELSE fallen_today
    /\ slot' = slot + 1
    /\ pc' = IF LoopBreaks(produced, ts) \/ BudgetSpent(slot + 1)
             THEN "endday" ELSE "slots"
    /\ draw' = d
    /\ UNCHANGED <<setup, probe, days, day_counter, daily_target, death_pressure, result>>

\* variant: every day is flagged as the bloodbath
DayRecordAlwaysBloodbath(number, events, fallen, survivors) ==
    [number |-> number,
     bloodbath |-> TRUE,
     events |-> events,
     fallen |-> fallen,
     survivors |-> survivors]

\* the record of a finished day
DayRecord(number, events, fallen, survivors) ==
    [number |-> number,
     bloodbath |-> (number = 1),
     events |-> events,
     fallen |-> fallen,
     survivors |-> survivors]

\* variant: the snapshot lists the whole roster
SurvivorsWholeRoster(ts) == [i \in 1..Len(ts) |-> ts[i].name]

\* [t.name for t in alive()]
Survivors(ts) ==
    LET living == AliveIn(ts)
    IN  [i \in 1..Len(living) |-> ts[living[i]].name]

\* days.append({...})
EndDay ==
    /\ pc = "endday"
    /\ days' = Append(days,
                 DayRecord(day_counter, events_today, fallen_today, Survivors(tributes)))
    /\ pc' = "loop"
    /\ draw' = NoDraw
    /\ UNCHANGED <<setup, probe, tributes, day_counter, events_today, fallen_today,
                   daily_target, death_pressure, slot, result>>

\* config.victory_template.format(name=..., kills=...)
VictoryEvent(winner) ==
    [type |-> "victory",
     text |-> format_template_text(config.victory_template,
                 [name |-> winner.name, kills |-> ToString(winner.kills)]),
     meta |-> [winner |-> winner.name, kills |-> winner.kills]]

\* variant: the first tribute of the roster, alive or not
WinnerOfFirst(ts) == IF ts # <<>> THEN <<ts[1]>> ELSE <<>>

\* next((t for t in tributes if t.alive), None), as a list of no or one tribute
WinnerOf(ts) ==
    IF AliveIn(ts) # <<>> THEN <<ts[AliveIn(ts)[1]]>> ELSE <<>>

\* variant: the victory event goes to the first day record
append_victory_first(ds, winner) ==
    [ds EXCEPT ![1].events = Append(@, VictoryEvent(winner))]

\* days[-1]["events"].append(victory event)
append_victory(ds, winner) ==
    [ds EXCEPT ![Len(ds)].events = Append(@, VictoryEvent(winner))]

\* str.format(**kwargs) raises KeyError for a placeholder that is no keyword
str_format_raises(template, keywords) ==
    \E i \in 1..Len(template) : template[i].ph /\ template[i].s \notin keywords

\* the loop has exited: winner, victory event, return; the call ends in a
\* KeyError instead when the victory text cannot be formatted
Finish ==
    /\ pc = "loop"
    /\ AliveCount <= 1
    /\ \E winner \in {WinnerOf(tributes)} :
         IF /\ winner # <<>>
            /\ days # <<>>
            /\ str_format_raises(config.victory_template, {"name", "kills"})
         THEN /\ pc' = "raised"
              /\ UNCHANGED <<days, result>>
         ELSE \E final \in {IF winner # <<>> /\ days # <<>>
                             THEN append_victory(days, winner[1])
                             ELSE days} :
                /\ days' = final
                /\ result' = [tributes |-> tributes,
                              days |-> final,
                              winner |-> IF winner # <<>> THEN <<winner[1].name>>
                                         ELSE <<>>]
                /\ pc' = "done"
    /\ draw' = NoDraw
    /\ UNCHANGED <<setup, probe, tributes, day_counter, events_today, fallen_today,
                   daily_target, death_pressure, slot>>

\* -------------------------------------------------------- generate_event
\* variant: the dead stay among the candidates
OthersOfRoster(actor) ==
    SelectSeq([i \in 1..Len(tributes) |-> i], LAMBDA i : i # actor)

\* variant: the actor stays among the candidates
OthersAndActor(actor) == alive

\* [t for t in living if t is not actor]
Others(actor) == SelectSeq(alive, LAMBDA i : i # actor)

NamesOf(idxs) == [i \in 1..Len(idxs) |-> tributes[idxs[i]].name]

\* variant: the actor is credited one kill per event
KillCreditOne(ts, actor, victims) ==
    [i \in 1..Len(ts) |->
        IF i \in Range(victims) THEN [ts[i] EXCEPT !.alive = FALSE]
        ELSE IF i = actor THEN [ts[i] EXCEPT !.kills = @ + 1]
        ELSE ts[i]]

\* "for target in victims: target.alive = False" and "actor.kills += len(victims)"
Kill(ts, actor, victims) ==
    [i \in 1..Len(ts) |->
        IF i \in Range(victims) THEN [ts[i] EXCEPT !.alive = FALSE]
        ELSE IF i = actor THEN [ts[i] EXCEPT !.kills = @ + Len(victims)]
        ELSE ts[i]]

\* replacements[keys[idx]] = victim.name, for idx over the victims
VictimBindings(keys, victims) ==
    [k \in {keys[i] : i \in 1..Len(victims)} |->
        tributes[victims[CHOOSE i \in 1..Len(victims) :
                    keys[i] = k /\ \A j \in (i + 1)..Len(victims) : keys[j] # k]].name]

\* the draws of a slot, as the variable draw records them
Drawn(step, actor, need, avail) ==
    [step |-> step, actor |-> actor, need |-> need, avail |-> avail]

\* the draws of a special-item slot: pick is the position rng.choice took in
\* the rule's template list
DrawnSpecial(step, actor, need, avail, pick) ==
    [step |-> step, actor |-> actor, need |-> need, avail |-> avail, pick |-> pick]

\* --- 1. special item
SpecialCandidates(actor) ==
    SelectSeq(tributes[actor].inventory, LAMBDA item : InMap(special_item_map, item))

SpecialHit(actor) ==
    SpecialCandidates(actor) # <<>> /\ CanHit(config.special_item_event_chance)
SpecialPass(actor) ==
    SpecialCandidates(actor) = <<>> \/ CanMiss(config.special_item_event_chance)

\* variant: the special step takes as many victims as there are, like the lethal step
SpecialCastClamped(victim_count, candidates) == Min2(victim_count, candidates)

\* how many victims the special step samples; -1 when it returns None instead
SpecialCast(victim_count, candidates) ==
    IF victim_count > 0 /\ candidates < victim_count THEN -1 ELSE victim_count

SpecialEvent(actor, chosen, template, victims) ==
    LET victim_keys == ensure_victim_keys(template.victim_keys, template.victim_count)
        lethal_event == template.lethal /\ template.victim_count > 0
        base == [person |-> tributes[actor].name, item |-> chosen]
        replacements == IF template.victim_count > 0
                        THEN VictimBindings(victim_keys, victims) @@ base
                        ELSE base
        meta == [person |-> tributes[actor].name, item |-> chosen,
                 consumed |-> template.consumes]
    IN  [type |-> IF lethal_event THEN "item-special lethal" ELSE "item-special",
         text |-> format_template_text(template.text, replacements),
         meta |-> IF victims # <<>>
                  THEN [victims |-> NamesOf(victims),
                        victim |-> tributes[victims[1]].name] @@ meta
                  ELSE meta]

\* variant: the sampled victims die whatever the template's lethal flag
SpecialEffectAlwaysKills(actor, chosen, template, victims) ==
    LET killed == Kill(tributes, actor, victims)
    IN  IF template.consumes
        THEN [killed EXCEPT ![actor].inventory = RemoveFirst(@, chosen)]
        ELSE killed

\* the tributes after a special event: victims of a lethal template killed,
\* a consumed item removed from the actor's inventory
SpecialEffect(actor, chosen, template, victims) ==
    LET killed == IF template.lethal /\ template.victim_count > 0
                  THEN Kill(tributes, actor, victims)
                  ELSE tributes
    IN  IF template.consumes
        THEN [killed EXCEPT ![actor].inventory = RemoveFirst(@, chosen)]
        ELSE killed

SlotSpecial ==
    /\ pc = "slots"
    /\ \E actor \in Range(alive) :
         /\ SpecialHit(actor)
         /\ \E candidates \in {Others(actor)} :
            \E chosen \in Range(SpecialCandidates(actor)) :
            \E templates \in {Lookup(special_item_map, chosen).events} :
            \E pick \in 1..Len(templates) :
            \E template \in {templates[pick]} :
            \E cast \in {SpecialCast(template.victim_count, Len(candidates))} :
              /\ cast >= 0
              /\ \E victims \in Samples(candidates, cast) :
                 \E event \in {SpecialEvent(actor, chosen, template, victims)} :
                 \E ts \in {SpecialEffect(actor, chosen, template, victims)} :
                   AfterEvent(<<event>>, ts,
                              DrawnSpecial("special", actor, template.victim_count,
                                           Len(candidates), pick))

\* the special step returns None: too few living non-actors for the template
SlotSpecialAbort ==
    /\ pc = "slots"
    /\ \E actor \in Range(alive) :
         /\ SpecialHit(actor)
         /\ \E candidates \in {Others(actor)} :
            \E chosen \in Range(SpecialCandidates(actor)) :
            \E templates \in {Lookup(special_item_map, chosen).events} :
            \E pick \in 1..Len(templates) :
            \E template \in {templates[pick]} :
              /\ SpecialCast(template.victim_count, Len(candidates)) < 0
              /\ AfterEvent(<<>>, tributes,
                            DrawnSpecial("special-abort", actor, template.victim_count,
                                         Len(candidates), pick))

\* --- 2. loot
\* variant: the cap is tested with <=
can_loot_inclusive(inventory) ==
    /\ config.loot_events # <<>>
    /\ config.inventory_items # <<>>
    /\ Len(inventory) <= MAX_INVENTORY_SIZE

can_loot(inventory) ==
    /\ config.loot_events # <<>>
    /\ config.inventory_items # <<>>
    /\ Len(inventory) < MAX_INVENTORY_SIZE

LootHit(actor) == can_loot(tributes[actor].inventory) /\ CanHit(config.loot_event_chance)
LootPass(actor) == ~can_loot(tributes[actor].inventory) \/ CanMiss(config.loot_event_chance)

\* config.item_loot_text.get(item, []) or config.loot_events or the fallback line
LootPool(item) ==
    LET item_templates == IF InMap(config.item_loot_text, item)
                          THEN Lookup(config.item_loot_text, item).texts ELSE <<>>
        template_pool == IF item_templates # <<>> THEN item_templates
                         ELSE config.loot_events
    IN  IF template_pool = <<>> THEN <<FallbackLootText>> ELSE template_pool

ItemEvent(type, actor, item, template) ==
    [type |-> type,
     text |-> format_template_text(template,
                 [person |-> tributes[actor].name, item |-> item]),
     meta |-> [person |-> tributes[actor].name, item |-> item]]

\* variant: the tributes share one inventory list
LootEffectShared(actor, item) ==
    [i \in 1..Len(tributes) |-> [tributes[i] EXCEPT !.inventory = Append(@, item)]]

\* actor.inventory.append(item)
LootEffect(actor, item) ==
    [tributes EXCEPT ![actor].inventory = Append(@, item)]

SlotLoot ==
    /\ pc = "slots"
    /\ \E actor \in Range(alive) :
         /\ SpecialPass(actor)
         /\ LootHit(actor)
         /\ \E item \in Range(config.inventory_items) :
            \E template \in Range(LootPool(item)) :
            \E event \in {ItemEvent("loot", actor, item, template)} :
            \E ts \in {LootEffect(actor, item)} :
              AfterEvent(<<event>>, ts, Drawn("loot", actor, 0, 0))

\* --- 3. inventory flavour
HasInventoryStep(actor) ==
    tributes[actor].inventory # <<>> /\ config.inventory_events # <<>>
InventoryHit(actor) == HasInventoryStep(actor) /\ CanHit(config.inventory_event_chance)
InventoryPass(actor) == ~HasInventoryStep(actor) \/ CanMiss(config.inventory_event_chance)

SlotInventory ==
    /\ pc = "slots"
    /\ \E actor \in Range(alive) :
         /\ SpecialPass(actor)
         /\ LootPass(actor)
         /\ InventoryHit(actor)
         /\ \E item \in Range(tributes[actor].inventory) :
            \E template \in Range(config.inventory_events) :
            \E event \in {ItemEvent("inventory", actor, item, template)} :
              AfterEvent(<<event>>, tributes, Drawn("inventory", actor, 0, 0))

\* --- 4. lethal
can_attempt_lethal == AliveCount > 1
lethal_chance == LethalChance(day_counter, death_pressure, config)
LethalHit ==
    can_attempt_lethal
      /\ \E chance \in {lethal_chance} : {r \in Rolls : QLt(Q(r, 100), chance)} # {}
LethalPass ==
    ~can_attempt_lethal
      \/ \E chance \in {lethal_chance} : {r \in Rolls : ~QLt(Q(r, 100), chance)} # {}

\* variant: one victim whatever the template asks for
LethalVictimCountOne(victim_count, candidates) == 1

\* min(template victim_count, len(candidates)), and 1 in place of 0
LethalVictimCount(victim_count, candidates) ==
    IF Min2(victim_count, candidates) = 0 THEN 1 ELSE Min2(victim_count, candidates)

LethalPool == IF config.lethal_events # <<>> THEN config.lethal_events
              ELSE <<FallbackLethal>>

LethalEvent(actor, template_info, victims) ==
    [type |-> "lethal",
     text |-> format_template_text(template_info.text,
                 VictimBindings(template_info.victim_keys, victims)
                   @@ [killer |-> tributes[actor].name]),
     meta |-> [killer |-> tributes[actor].name,
               victim |-> tributes[victims[1]].name,
               victims |-> NamesOf(victims)]]

SlotLethal ==
    /\ pc = "slots"
    /\ \E actor \in Range(alive) :
         /\ SpecialPass(actor)
         /\ LootPass(actor)
         /\ InventoryPass(actor)
         /\ LethalHit
         /\ \E candidates \in {Others(actor)} :
            \E entry \in Range(LethalPool) :
            \E template_info \in {normalize_lethal_entry(entry)} :
            \E victim_count \in {LethalVictimCount(template_info.victim_count,
                                                   Len(candidates))} :
            \E victims \in Samples(candidates, victim_count) :
            \E event \in {LethalEvent(actor, template_info, victims)} :
            \E ts \in {Kill(tributes, actor, victims)} :
              AfterEvent(<<event>>, ts,
                         Drawn("lethal", actor, template_info.victim_count,
                               Len(candidates)))

\* --- 5. non-lethal fallback
NonLethalPool == IF config.non_lethal_events # <<>> THEN config.non_lethal_events
                 ELSE <<FallbackNonLethal>>

\* how many bystanders the fallback samples; -1 when it returns None instead
NonLethalCast(roles, candidates) == IF candidates < roles THEN -1 ELSE roles

RoleBindings(roles, others) ==
    [k \in {roles[i] : i \in 1..Len(others)} |->
        tributes[others[CHOOSE i \in 1..Len(others) :
                    roles[i] = k /\ \A j \in (i + 1)..Len(others) : roles[j] # k]].name]

NonLethalEvent(actor, template_entry, others) ==
    [type |-> "non-lethal",
     text |-> format_template_text(template_entry.text,
                 RoleBindings(template_entry.roles, others)
                   @@ [person |-> tributes[actor].name]),
     meta |-> IF others # <<>>
              THEN [person |-> tributes[actor].name, others |-> NamesOf(others)]
              ELSE [person |-> tributes[actor].name]]

SlotNonLethal ==
    /\ pc = "slots"
    /\ \E actor \in Range(alive) :
         /\ SpecialPass(actor)
         /\ LootPass(actor)
         /\ InventoryPass(actor)
         /\ LethalPass
         /\ \E candidates \in {Others(actor)} :
            \E entry \in Range(NonLethalPool) :
            \E template_entry \in {normalize_non_lethal_entry(entry)} :
            \E cast \in {NonLethalCast(Len(template_entry.roles), Len(candidates))} :
              /\ cast >= 0
              /\ \E others \in Samples(candidates, cast) :
                 \E event \in {NonLethalEvent(actor, template_entry, others)} :
                   AfterEvent(<<event>>, tributes,
                              Drawn("non-lethal", actor, Len(template_entry.roles),
                                    Len(candidates)))

\* the fallback returns None: too few living non-actors for the roles
SlotNonLethalAbort ==
    /\ pc = "slots"
    /\ \E actor \in Range(alive) :
         /\ SpecialPass(actor)
         /\ LootPass(actor)
         /\ InventoryPass(actor)
         /\ LethalPass
         /\ \E candidates \in {Others(actor)} :
            \E entry \in Range(NonLethalPool) :
            \E template_entry \in {normalize_non_lethal_entry(entry)} :
              /\ NonLethalCast(Len(template_entry.roles), Len(candidates)) < 0
              /\ AfterEvent(<<>>, tributes,
                            Drawn("non-lethal-abort", actor, Len(template_entry.roles),
                                  Len(candidates)))

Next ==
    \/ StartDay
    \/ SlotSpecial
    \/ SlotSpecialAbort
    \/ SlotLoot
    \/ SlotInventory
    \/ SlotLethal
    \/ SlotNonLethal
    \/ SlotNonLethalAbort
    \/ EndDay
    \/ Finish

Spec == Init /\ [][Next]_vars

\* ------------------------------------------------ runs of unbounded length
\* The day loop has no bound of its own.  To follow a run past MaxDay the
\* days after it are folded onto day MaxDay: the counter stays at MaxDay, the
\* record of a later day takes the place of the record before it, and the
\* day's budget and pressure are those of some day number in
\* MaxDay+1 .. LateHorizon.

\* every slot may loot or play with an item with certainty
CfgIdle ==
    [BaseConfig EXCEPT !.inventory_items = <<"rock">>,
                       !.loot_event_chance = 100,
                       !.inventory_event_chance = 100]

\* whoever has no bomb picks one up, whoever holds one uses it at once
CfgFuse ==
    [BaseConfig EXCEPT !.inventory_items = <<"bomb">>,
                       !.loot_event_chance = 100,
                       !.special_item_event_chance = 100,
                       !.special_item_events = <<BombRule(<<BombBlast, BombShow>>)>>]

FairScenarios ==
    {Scenario(BaseConfig, 2), Scenario(CfgPacifist, 2), Scenario(CfgIdle, 2),
     Scenario(CfgMassacre, 2), Scenario(CfgFuse, 2)}

FairInit == probe = NoProbe /\ \E sc \in FairScenarios : Start(sc)

\* one pass of the loop on a day after MaxDay
StartLateDay ==
    /\ pc = "loop"
    /\ AliveCount > 1
    /\ day_counter = MaxDay
    /\ \E day_number \in (MaxDay + 1)..LateHorizon :
       \E alive_count \in {AliveCount} :
       \E target \in determine_event_count(day_number, alive_count, total_tributes,
                                            config, desired_days) :
         /\ daily_target' = target
         /\ death_pressure' = compute_death_pressure(alive_count, day_number, target,
                                                     desired_days, config)
         /\ pc' = IF target > 0 THEN "slots" ELSE "endday"
    /\ days' = SubSeq(days, 1, MaxDay - 1)
    /\ events_today' = <<>>
    /\ fallen_today' = <<>>
    /\ slot' = 0
    /\ draw' = NoDraw
    /\ UNCHANGED <<setup, probe, tributes, day_counter, result>>

FairNext ==
    \/ StartDay
    \/ StartLateDay
    \/ SlotSpecial
    \/ SlotSpecialAbort
    \/ SlotLoot
    \/ SlotInventory
    \/ SlotLethal
    \/ SlotNonLethal
    \/ SlotNonLethalAbort
    \/ EndDay
    \/ Finish

\* the program keeps running, and a slot outcome that stays possible is
\* eventually drawn
FairSpec ==
    /\ FairInit
    /\ [][FairNext]_vars
    /\ WF_vars(FairNext)
    /\ SF_vars(SlotLethal)

\* ------------------------------------------- the helpers called directly
\* The pacing, normalising and rendering functions are module-level functions
\* of the program; here each is called on arguments of its own, outside a run,
\* and the call is recorded in probe.
MaxAlive == 4
MaxProbeDay == 13
MaxEvents == 3
Chances == {0, 5, 10, 55, 95, 100}
Bonuses == {0, 25, 100}
DesiredDays == {1, 7, 12}
MaxTotal == 26
MaxTarget == 13
MaxVictimCount == 3
MaxKeys == 3

\* the calls of compute_death_pressure that are made
DeathPressureCalls ==
    [op : {"compute_death_pressure"}, called : {FALSE},
     alive_count : 0..MaxAlive, day_number : 1..MaxProbeDay,
     daily_events : 0..MaxEvents, desired_days : DesiredDays,
     lethal_event_chance : Chances, bloodbath_lethal_bonus : Bonuses]

\* the calls of determine_desired_total_days: one configuration, every roster
\* size up to MaxTotal
DesiredDaysCalls ==
    [op : {"determine_desired_total_days"}, called : {FALSE},
     target_min_days : 0..MaxTarget, target_max_days : 0..MaxTarget]

\* the calls of determine_event_count
BloodbathRanges == {<<>>, <<1>>, <<2, 5>>, <<6, 9>>, <<3, 1>>}
EventCountCalls ==
    {c \in [op : {"determine_event_count"}, called : {FALSE},
            day_number : 1..MaxProbeDay, alive_count : 2..MaxAlive,
            total_tributes : 2..MaxAlive,
            min_events_per_day : 0..MaxEvents, max_events_per_day : 0..MaxEvents,
            bloodbath_event_range : BloodbathRanges,
            desired_days : DesiredDays, lethal_event_chance : {0, 55}] :
        c.alive_count <= c.total_tributes}

\* template texts the normalisers are given
ProbeTexts ==
    {<<Ph("killer"), Lit(" ambushes "), Ph("victim")>>,
     <<Ph("killer"), Lit(" traps "), Ph("victim"), Lit(" and "), Ph("victim2")>>,
     <<Ph("person"), Lit(" sets off the "), Ph("item")>>,
     <<Ph("person"), Lit(" shelters with "), Ph("ally")>>,
     <<Ph("victim_b"), Lit(" falls; "), Ph("victim_b"), Lit(" is gone")>>}

ProbeRoleLists == {<<>>, <<"ally">>, <<"person", "scout">>}

\* a raw entry is a plain string or a dict with text and optional keys
StringEntries == [text : ProbeTexts]

DictEntries == [dict : {TRUE}, text : ProbeTexts]

WithCount(entries) ==
    entries
    \cup {e @@ [victim_count |-> n] : e \in entries, n \in 0..MaxVictimCount}
    \cup {e @@ [victims |-> n] : e \in entries, n \in 0..MaxVictimCount}

WithFlag(entries, key) ==
    entries \cup {e @@ (key :> b) : e \in entries, b \in BOOLEAN}

LethalEntries == StringEntries \cup WithCount(DictEntries)

NonLethalEntries ==
    StringEntries \cup DictEntries
    \cup {e @@ [extra_roles |-> r] : e \in DictEntries, r \in ProbeRoleLists}

SpecialEntries ==
    StringEntries \cup WithFlag(WithFlag(WithCount(DictEntries), "lethal"), "consumes")

\* the calls of the three normalisers that are made
NormalizeCalls ==
    [op : {"normalize_lethal_entry"}, called : {FALSE}, entry : LethalEntries]
    \cup [op : {"normalize_non_lethal_entry"}, called : {FALSE}, entry : NonLethalEntries]
    \cup [op : {"normalize_special_event"}, called : {FALSE}, entry : SpecialEntries,
          default_consumes : BOOLEAN]

\* lists of distinct victim placeholder names, as infer_victim_roles returns them
ProbeKeyNames == {"victim", "victim2", "victim3", "victim_b"}

ProbeKeyLists ==
    {keys \in UNION {[1..n -> ProbeKeyNames] : n \in 0..MaxKeys} :
        \A i, j \in 1..Len(keys) : keys[i] = keys[j] => i = j}

\* the calls of ensure_victim_keys that are made
EnsureCalls ==
    [op : {"ensure_victim_keys"}, called : {FALSE},
     base_keys : ProbeKeyLists, count : 0..MaxVictimCount]

PureCalls ==
    DeathPressureCalls \cup DesiredDaysCalls \cup EventCountCalls \cup NormalizeCalls
        \cup EnsureCalls

PureInit == probe \in PureCalls /\ Start(Scenario(BaseConfig, 0))

\* compute_death_pressure(...), and the lethal chance generate_event derives
\* from it on the same day
CallDeathPressure ==
    /\ probe.op = "compute_death_pressure"
    /\ ~probe.called
    /\ \E cfg \in {[BaseConfig EXCEPT
                       !.lethal_event_chance = probe.lethal_event_chance,
                       !.bloodbath_lethal_bonus = probe.bloodbath_lethal_bonus]} :
       \E pressure \in {compute_death_pressure(probe.alive_count, probe.day_number,
                            probe.daily_events, probe.desired_days, cfg)} :
          probe' = [called |-> TRUE, value |-> pressure,
                    lethal_chance |-> LethalChance(probe.day_number, pressure, cfg)]
                     @@ probe
    /\ UNCHANGED run

\* determine_desired_total_days(total, cfg) for total = 0 .. MaxTotal
CallDesiredDays ==
    /\ probe.op = "determine_desired_total_days"
    /\ ~probe.called
    /\ \E cfg \in {[BaseConfig EXCEPT !.target_min_days = probe.target_min_days,
                                       !.target_max_days = probe.target_max_days]} :
          probe' = [called |-> TRUE,
                    values |-> [total \in 0..MaxTotal |->
                                  determine_desired_total_days(total, cfg)]] @@ probe
    /\ UNCHANGED run

\* determine_event_count(...): the counts its draw can produce
CallEventCount ==
    /\ probe.op = "determine_event_count"
    /\ ~probe.called
    /\ \E cfg \in {[BaseConfig EXCEPT
                       !.min_events_per_day = probe.min_events_per_day,
                       !.max_events_per_day = probe.max_events_per_day,
                       !.bloodbath_event_range = probe.bloodbath_event_range,
                       !.lethal_event_chance = probe.lethal_event_chance]} :
          probe' = [called |-> TRUE,
                    values |-> determine_event_count(probe.day_number, probe.alive_count,
                                   probe.total_tributes, cfg, probe.desired_days)]
                     @@ probe
    /\ UNCHANGED run

\* the canonical record a normaliser returned, passed as an entry: a dict
\* with the key text and the record's other keys
AsEntry(record) == [dict |-> TRUE] @@ record

Normalize(op, entry, default_consumes) ==
    IF op = "normalize_lethal_entry" THEN normalize_lethal_entry(entry)
    ELSE IF op = "normalize_non_lethal_entry" THEN normalize_non_lethal_entry(entry)
    ELSE normalize_special_event(entry, default_consumes)

\* a normaliser applied to a raw entry, then to the record it returned
CallNormalize ==
    /\ probe.op \in {"normalize_lethal_entry", "normalize_non_lethal_entry",
                     "normalize_special_event"}
    /\ ~probe.called
    /\ \E default \in {IF "default_consumes" \in DOMAIN probe
                        THEN probe.default_consumes ELSE FALSE} :
       \E first \in {Normalize(probe.op, probe.entry, default)} :
         probe' = [called |-> TRUE, first |-> first,
                   second |-> Normalize(probe.op, AsEntry(first), default)] @@ probe
    /\ UNCHANGED run

\* ensure_victim_keys(base_keys, count)
CallEnsureVictimKeys ==
    /\ probe.op = "ensure_victim_keys"
    /\ ~probe.called
    /\ probe' = [called |-> TRUE,
                 value |-> ensure_victim_keys(probe.base_keys, probe.count)] @@ probe
    /\ UNCHANGED run

PureNext ==
    \/ CallDeathPressure
    \/ CallDesiredDays
    \/ CallEventCount
    \/ CallNormalize
    \/ CallEnsureVictimKeys

PureSpec == PureInit /\ [][PureNext]_vars

\* ================================================================ claims
FallenOf(ds) == Flatten([i \in 1..Len(ds) |-> ds[i].fallen])
EventsOf(ds) == Flatten([i \in 1..Len(ds) |-> ds[i].events])
Occurrences(s, x) == Cardinality({i \in 1..Len(s) : s[i] = x})
SumKills == SumSeq([i \in 1..Len(tributes) |-> tributes[i].kills])
DeadCount == Cardinality({i \in 1..Len(tributes) : ~tributes[i].alive})
Returned == pc = "done"

\* C1: when run_simulation returns for a roster of one or more names, every
\* name of the roster occurs exactly once in the days' fallen lists followed by
\* the winner, and nothing else occurs there.
C1_Partition ==
    (Returned /\ Len(names) >= 1) =>
        LET listed == FallenOf(result.days) \o result.winner
        IN  /\ \A n \in Range(names) : Occurrences(listed, n) = 1
            /\ Len(listed) = Len(names)

\* a returned run of three tributes in which an event felled two of them at once
C1_Witness ==
    /\ Returned
    /\ Len(names) = 3
    /\ \E i \in 1..Len(result.days) : Len(result.days[i].fallen) = 2

\* C2: at every point of a run the kill counts sum to the number of dead
\* tributes, which is the number of names in the fallen lists (the open day's
\* list included); the returned result has the same three numbers equal.
OpenDay == pc \in {"slots", "endday"}
TotalFallen == Len(FallenOf(days)) + (IF OpenDay THEN Len(fallen_today) ELSE 0)

C2_KillAccounting ==
    /\ SumKills = DeadCount
    /\ DeadCount = TotalFallen
    /\ Returned =>
         /\ SumSeq([i \in 1..Len(result.tributes) |-> result.tributes[i].kills])
              = Len(FallenOf(result.days))
         /\ Cardinality({i \in 1..Len(result.tributes) : ~result.tributes[i].alive})
              = Len(FallenOf(result.days))

\* a special-item event has just killed two tributes at once
C2_Witness ==
    /\ draw.step = "special"
    /\ events_today[Len(events_today)].type = "item-special lethal"
    /\ tributes[draw.actor].kills = 2
    /\ Len(fallen_today) = 2

\* C5 as claimed: the winner is none for an empty or a one-member roster, and
\* otherwise the name of the only tribute alive at the end.
C5_Original ==
    Returned =>
        /\ Len(names) <= 1 => result.winner = <<>>
        /\ Len(names) >= 2 => /\ AliveCount = 1
                              /\ result.winner = <<tributes[alive[1]].name>>

\* C5 amended: the winner is none only for the empty roster; for a roster of
\* one it is that member (with no day record, hence no victory event), and for
\* a larger roster the name of the only tribute alive at the end.
C5_Winner ==
    Returned =>
        /\ names = <<>> => result.winner = <<>>
        /\ Len(names) = 1 => result.winner = <<names[1]>> /\ result.days = <<>>
        /\ Len(names) >= 2 => /\ AliveCount = 1
                              /\ result.winner = <<tributes[alive[1]].name>>

\* a returned run of a one-member roster, whose member is the winner
C5_Witness ==
    /\ Returned
    /\ Len(names) = 1
    /\ result.winner = <<"Ann">>
    /\ result.days = <<>>

\* C6: for a roster of two or more, the returned last day record ends with a
\* victory event naming the winner and the winner's final kill count, and no
\* other event of any day is a victory event.
C6_Victory ==
    (Returned /\ Len(names) >= 2) =>
        LET ds == result.days
            all == EventsOf(ds)
        IN  /\ ds # <<>>
            /\ ds[Len(ds)].events # <<>>
            /\ LET last == ds[Len(ds)].events[Len(ds[Len(ds)].events)]
               IN  /\ last.type = "victory"
                   /\ <<last.meta.winner>> = result.winner
                   /\ \E i \in 1..Len(result.tributes) :
                        /\ result.tributes[i].name = last.meta.winner
                        /\ result.tributes[i].alive
                        /\ result.tributes[i].kills = last.meta.kills
            /\ Cardinality({i \in 1..Len(all) : all[i].type = "victory"}) = 1

\* a run that took two days and whose winner made two kills
C6_Witness ==
    /\ Returned
    /\ Len(result.days) = 2
    /\ \E i \in 1..Len(tributes) : tributes[i].alive /\ tributes[i].kills = 2

\* C8: the day records are numbered 1, 2, ... in list order, and a record is
\* flagged bloodbath exactly when its number is 1.
DaysNumbered(ds) ==
    \A i \in 1..Len(ds) : ds[i].number = i /\ (ds[i].bloodbath <=> (ds[i].number = 1))

C8_DayNumbering == DaysNumbered(days) /\ (Returned => DaysNumbered(result.days))

\* a returned run with a second day
C8_Witness == Returned /\ Len(result.days) = 2 /\ ~result.days[2].bloodbath

\* C7: no inventory is ever longer than MAX_INVENTORY_SIZE, and an inventory
\* grows only by one item, in a loot step of its owner, from a length strictly
\* below the cap.
InventoryWithinCap ==
    \A i \in 1..Len(tributes) : Len(tributes[i].inventory) <= MAX_INVENTORY_SIZE

C7_InventoryCap ==
    /\ []InventoryWithinCap
    /\ [][\A i \in 1..Len(tributes) :
            Len(tributes'[i].inventory) > Len(tributes[i].inventory) =>
                /\ draw'.step = "loot"
                /\ draw'.actor = i
                /\ Len(tributes[i].inventory) < MAX_INVENTORY_SIZE
                /\ Len(tributes'[i].inventory) = Len(tributes[i].inventory) + 1]_vars

\* a tribute with a full pack was the actor of a slot that did not loot
C7_Witness ==
    /\ draw.step = "inventory"
    /\ Len(tributes[draw.actor].inventory) = MAX_INVENTORY_SIZE
    /\ config.loot_event_chance = 100

\* C9 as claimed: a lethal step whose template asks for more victims than
\* there are living non-actors yields no event and changes no tribute.
C9_Original ==
    [][(draw'.step = "lethal" /\ draw'.need > draw'.avail) =>
          (tributes' = tributes /\ events_today' = events_today)]_vars

\* C9 amended: the lethal step never gives up for want of victims: it takes
\* min(required, available) victims (all the living non-actors when the
\* template asks for more), at least one, marks exactly them dead, credits the
\* actor with that many kills and yields a lethal event naming them.
C9_LethalClamp ==
    [][draw'.step = "lethal" =>
          LET event == events_today'[Len(events_today')]
              count == Len(event.meta.victims)
          IN  /\ Len(events_today') = Len(events_today) + 1
              /\ event.type = "lethal"
              /\ count = Min2(draw'.need, draw'.avail)
              /\ count >= 1
              /\ DeadCount' = DeadCount + count
              /\ \A i \in 1..Len(tributes) :
                   (tributes[i].alive /\ ~tributes'[i].alive)
                      <=> Contains(event.meta.victims, tributes[i].name)
              /\ tributes'[draw'.actor].kills = tributes[draw'.actor].kills + count
              /\ tributes'[draw'.actor].alive]_vars

\* a two-victim lethal template was played with one living non-actor
C9_Witness ==
    /\ draw.step = "lethal"
    /\ draw.need = 2
    /\ draw.avail = 1
    /\ events_today[Len(events_today)].meta.victims # <<>>

\* C10: a special-item step whose template asks for more victims than there
\* are living non-actors ends the slot with no event (no later step runs) and
\* leaves every tribute as it was, the item still in the inventory.
C10_SpecialAbort ==
    [][(draw'.step \in {"special", "special-abort"} /\ draw'.need > draw'.avail) =>
          /\ draw'.step = "special-abort"
          /\ tributes' = tributes
          /\ events_today' = events_today
          /\ fallen_today' = fallen_today
          /\ slot' = slot + 1]_vars

\* the special step gave up: two victims wanted, one living non-actor
C10_Witness ==
    /\ draw.step = "special-abort"
    /\ draw.need = 2
    /\ draw.avail = 1
    /\ Contains(tributes[draw.actor].inventory, "bomb")

\* C3 as claimed: with fair draws the day loop exits, whatever the chances.
C3_Original == <>(pc = "done")

\* C3 amended: when the special-item, loot and inventory chances are all
\* strictly below 1 the day loop exits under fair draws (with a chance of 1 a
\* slot may never reach the lethal step, and then nobody ever dies); and no
\* step of a run, hence no day, raises the number of living tributes.
ChancesBelowOne ==
    /\ config.special_item_event_chance < 100
    /\ config.loot_event_chance < 100
    /\ config.inventory_event_chance < 100

C3_Termination ==
    /\ ChancesBelowOne => <>(pc = "done")
    /\ [][AliveCount' <= AliveCount]_vars

\* a run with a configured lethal chance of 0 that went past MaxDay and ended
C3_Witness ==
    /\ pc = "done"
    /\ config.lethal_event_chance = 0
    /\ DeadCount = 1
    /\ Len(days) = MaxDay
    /\ days[MaxDay].events[1].type = "non-lethal"

\* the last event of the open day, and whether the last slot was a special-item event
LastEvent == events_today[Len(events_today)]
SpecialFired == draw.step = "special"

\* s with the element at position k left out
Without(s, k) == SubSeq(s, 1, k - 1) \o SubSeq(s, k + 1, Len(s))

\* C11: a special-item event whose consumed flag is true leaves the actor's
\* inventory as it was with one occurrence of the triggering item (the first)
\* taken out, every other entry kept in place; with the flag false the
\* inventory is unchanged.
C11_ConsumeOnce ==
    [][SpecialFired' =>
          LET before == tributes[draw'.actor].inventory
              after == tributes'[draw'.actor].inventory
              item == LastEvent'.meta.item
          IN  IF LastEvent'.meta.consumed
              THEN /\ Len(after) = Len(before) - 1
                   /\ \E k \in 1..Len(before) :
                        /\ before[k] = item
                        /\ \A j \in 1..(k - 1) : before[j] # item
                        /\ after = Without(before, k)
              ELSE after = before]_vars

\* a consumed bomb was used by a tribute who carried three items, and the two
\* others are still in the pack
C11_Witness ==
    /\ SpecialFired
    /\ LastEvent.meta.consumed
    /\ LastEvent.meta.item = "bomb"
    /\ tributes[draw.actor].inventory \in {<<"rock", "bomb">>, <<"rock", "rock">>}

\* C12: whatever its arguments, compute_death_pressure returns a value in
\* [0.6, 4.0], and the lethal probability of a slot (the configured chance,
\* plus the bonus on day 1, times the pressure) is in [0.05, 0.95].
C12_PressureRange ==
    (probe.op = "compute_death_pressure" /\ probe.called) =>
        /\ QLe(Q(6, 10), probe.value) /\ QLe(probe.value, Q(4, 1))
        /\ QLe(Q(5, 100), probe.lethal_chance) /\ QLe(probe.lethal_chance, Q(95, 100))

\* a late day on which the raw pressure times the late-game bonus is above 4
C12_Witness ==
    /\ probe.op = "compute_death_pressure"
    /\ probe.called
    /\ probe.day_number > 10
    /\ probe.alive_count = MaxAlive
    /\ probe.daily_events = 1
    /\ probe.value = Q(4, 1)
    /\ probe.lethal_chance = Q(95, 100)

\* C13: with min_days = max(1, target_min_days) and max_days = max(min_days,
\* target_max_days), determine_desired_total_days gives min_days for rosters of
\* 0, 1 and 2, max_days for rosters of 24 and more, and for every roster size
\* an integer in [min_days, max_days] that does not decrease as the roster grows.
C13_DesiredDays ==
    (probe.op = "determine_desired_total_days" /\ probe.called) =>
        LET min_days == Max2(1, probe.target_min_days)
            max_days == Max2(min_days, probe.target_max_days)
        IN  /\ \A total \in 0..2 : probe.values[total] = min_days
            /\ \A total \in 24..MaxTotal : probe.values[total] = max_days
            /\ \A total \in 0..MaxTotal :
                 /\ probe.values[total] \in min_days..max_days
                 /\ total < MaxTotal => probe.values[total] <= probe.values[total + 1]

\* a window of 8 to 9 days: the half-way roster of 13 gets 8.5 rounded to 8, and
\* rosters beyond 24 stay at 9
C13_Witness ==
    /\ probe.op = "determine_desired_total_days"
    /\ probe.called
    /\ probe.target_min_days = 8
    /\ probe.target_max_days = 9
    /\ probe.values[13] = 8
    /\ probe.values[14] = 9
    /\ probe.values[MaxTotal] = 9

EventCountCalled == probe.op = "determine_event_count" /\ probe.called

\* C14 as claimed: on every day, day 1 included, the event count is within
\* [min_events_per_day, alive_count].
C14_Original ==
    EventCountCalled =>
        \A count \in probe.values :
            probe.min_events_per_day <= count /\ count <= probe.alive_count

\* C14 amended: the event count is never below min_events_per_day.  On day 1
\* with a bloodbath range configured it is drawn from low .. high, where low is
\* the larger of min_events_per_day and the lower end of the range and high the
\* larger of low and the upper end, whatever the number of living tributes.  On
\* every other day it is at most the larger of min_events_per_day and
\* alive_count, hence within [min_events_per_day, alive_count] whenever that
\* interval is not empty.
C14_EventCount ==
    EventCountCalled =>
        LET range == probe.bloodbath_event_range
            low == Max2(probe.min_events_per_day, range[1])
            high == Max2(low, range[Len(range)])
        IN  /\ probe.values # {}
            /\ \A count \in probe.values : probe.min_events_per_day <= count
            /\ IF probe.day_number = 1 /\ range # <<>>
               THEN probe.values = low..high
               ELSE \A count \in probe.values :
                        count <= Max2(probe.min_events_per_day, probe.alive_count)

\* the default bloodbath of 6 to 9 events, with two tributes in the arena
C14_Witness ==
    /\ EventCountCalled
    /\ probe.day_number = 1
    /\ probe.alive_count = 2
    /\ probe.bloodbath_event_range = <<6, 9>>
    /\ probe.values = 6..9

\* the placeholders left in a rendered text
Unresolved(text) == {text[i].s : i \in {k \in 1..Len(text) : text[k].ph}}

\* C15 as claimed: rendering a template of the simulation, the victory template
\* included, never raises: no call of run_simulation ends in an exception, and
\* in the events rendered so far the placeholders every binding map has
\* (killer, person, item) are substituted.
C15_Original ==
    /\ pc # "raised"
    /\ \A i \in 1..Len(events_today) :
         Unresolved(events_today[i].text) \cap {"killer", "person", "item"} = {}

\* ---------------------------------------------------------------- C16
NormalizeCalled ==
    /\ probe.op \in {"normalize_lethal_entry", "normalize_non_lethal_entry",
                     "normalize_special_event"}
    /\ probe.called

ExplicitRoles ==
    "extra_roles" \in DOMAIN probe.entry /\ probe.entry.extra_roles # <<>>

\* C16 as stated: every normaliser, applied to the canonical record it
\* produced, returns that record again (same victim arity, victim keys, extra
\* roles, lethal flag and consumption flag).
C16_Original == NormalizeCalled => probe.second = probe.first

\* C16: normalize_lethal_entry and normalize_special_event return the same
\* record when applied to the record they produced; normalize_non_lethal_entry
\* does so when the entry gives no non-empty extra_roles list, and otherwise
\* returns the roles inferred from the text in place of the listed ones.
C16_Idempotent ==
    NormalizeCalled =>
        /\ probe.second.text = probe.first.text
        /\ probe.op # "normalize_non_lethal_entry" => probe.second = probe.first
        /\ (probe.op = "normalize_non_lethal_entry" /\ ~ExplicitRoles)
              => probe.second = probe.first
        /\ (probe.op = "normalize_non_lethal_entry" /\ ExplicitRoles)
              => probe.second.roles = infer_additional_roles(probe.entry.text, {"person"})

\* an explicit victim count that differs from the inferred one survives the
\* second pass
C16_Witness ==
    /\ NormalizeCalled
    /\ probe.op = "normalize_lethal_entry"
    /\ "victims" \in DOMAIN probe.entry
    /\ probe.first.victim_count = 3
    /\ Len(infer_victim_roles(probe.entry.text)) = 1
    /\ probe.second = probe.first
\* ---------------------------------------------------------------- C17
\* one call of generate_event: a slot of the day is used up
SlotStep == pc = "slots" /\ slot' = slot + 1

NewEvents == SubSeq(events_today', Len(events_today) + 1, Len(events_today'))

SameBut(i, fields) ==
    /\ tributes'[i].name = tributes[i].name
    /\ "alive" \in fields \/ tributes'[i].alive = tributes[i].alive
    /\ "kills" \in fields \/ tributes'[i].kills = tributes[i].kills
    /\ "inventory" \in fields \/ tributes'[i].inventory = tributes[i].inventory

HoldsSpecial(i) ==
    \E k \in 1..Len(tributes[i].inventory) : InMap(special_item_map, tributes[i].inventory[k])

CertainSpecial(i) == HoldsSpecial(i) /\ config.special_item_event_chance >= 100

CertainLoot(i) ==
    /\ config.loot_events # <<>>
    /\ config.inventory_items # <<>>
    /\ Len(tributes[i].inventory) < MAX_INVENTORY_SIZE
    /\ config.loot_event_chance >= 100

CertainInventory(i) ==
    /\ tributes[i].inventory # <<>>
    /\ config.inventory_events # <<>>
    /\ config.inventory_event_chance >= 100

\* the effect of the event e of actor a, and no other
EffectOf(e, a) ==
    LET others == (1..Len(tributes)) \ {a}
        victims == IF "victims" \in DOMAIN e.meta
                   THEN {i \in others : tributes[i].name \in Range(e.meta.victims)}
                   ELSE {}
    IN  /\ e.type = "loot" =>
              /\ tributes' = [tributes EXCEPT ![a].inventory = Append(@, e.meta.item)]
              /\ ~CertainSpecial(a)
        /\ e.type = "inventory" =>
              /\ tributes' = tributes
              /\ tributes[a].inventory # <<>>
              /\ ~CertainSpecial(a) /\ ~CertainLoot(a)
        /\ e.type = "non-lethal" =>
              /\ tributes' = tributes
              /\ ~CertainSpecial(a) /\ ~CertainLoot(a) /\ ~CertainInventory(a)
        /\ e.type = "lethal" =>
              /\ SameBut(a, {"kills"})
              /\ \A i \in victims : SameBut(i, {"alive"})
              /\ \A i \in others \ victims : SameBut(i, {})
              /\ ~CertainSpecial(a) /\ ~CertainLoot(a) /\ ~CertainInventory(a)
        /\ e.type \in {"item-special", "item-special lethal"} =>
              /\ SameBut(a, {"kills", "inventory"})
              /\ \A i \in victims : SameBut(i, {"alive"})
              /\ \A i \in others \ victims : SameBut(i, {})
              /\ HoldsSpecial(a)

\* C17: a call of generate_event yields no event or one, of the first step in
\* the order special, loot, inventory, lethal, non-lethal that fires, and
\* changes the tributes only as that event does: loot appends one item to the
\* actor's inventory, inventory and non-lethal events change nothing, a lethal
\* event changes the victims' alive flags and the actor's kills, a special
\* event the victims' alive flags and the actor's kills and inventory; a call
\* without an event changes nothing.
C17_Frame ==
    [][SlotStep =>
         /\ Len(NewEvents) <= 1
         /\ Len(tributes') = Len(tributes)
         /\ NewEvents = <<>> => tributes' = tributes
         /\ NewEvents # <<>> => EffectOf(NewEvents[1], draw'.actor)
         /\ \A i \in (1..Len(tributes)) \ {draw'.actor} :
               /\ tributes'[i].inventory = tributes[i].inventory
               /\ tributes'[i].kills = tributes[i].kills]_vars

\* a loot event was produced in a roster where another tribute also carries items
C17_Witness ==
    /\ events_today # <<>>
    /\ LastEvent.type = "loot"
    /\ draw.step = "loot"
    /\ \E i \in 1..Len(tributes) : i # draw.actor /\ tributes[i].inventory # <<>>
\* ---------------------------------------------------------------- C18
LastIn(s) == s[Len(s)]

\* the configured rule of an item: the last one listed for it
RuleOf(item) ==
    LastIn(SelectSeq(config.special_item_events,
                     LAMBDA rule : rule.item = item /\ rule.events # <<>>))

\* the template the special step chose, as the configuration lists it
ChosenTemplate == RuleOf(LastEvent.meta.item).events[draw.pick]

TemplateHasFlag == IsDict(ChosenTemplate) /\ "consumes" \in DOMAIN ChosenTemplate
TemplateMarksConsumed == TemplateHasFlag /\ ChosenTemplate.consumes
RuleMarksConsumed == RuleOf(LastEvent.meta.item).consumes

\* the special event just produced took one item out of the actor's inventory
ItemRemoved ==
    Len(tributes'[draw'.actor].inventory) = Len(tributes[draw'.actor].inventory) - 1

ItemKept == tributes'[draw'.actor].inventory = tributes[draw'.actor].inventory

SpecialStep == SlotStep /\ draw'.step = "special"

\* C18 as stated: the item is removed when the chosen template or the rule
\* marks it consumed, and kept only when neither does.
C18_Original ==
    [][SpecialStep =>
         /\ (TemplateMarksConsumed \/ RuleMarksConsumed)' => ItemRemoved
         /\ ~(TemplateMarksConsumed \/ RuleMarksConsumed)' => ItemKept]_vars

\* C18: the item is removed when the chosen template's own consumes flag is
\* true, or when the template carries no flag and the rule marks the item
\* consumed; it is kept when the template's flag is false, whatever the rule
\* says, and when the template carries no flag and the rule does not mark it.
C18_Consume ==
    [][SpecialStep =>
         /\ (TemplateMarksConsumed \/ (~TemplateHasFlag /\ RuleMarksConsumed))' => ItemRemoved
         /\ ~(TemplateMarksConsumed \/ (~TemplateHasFlag /\ RuleMarksConsumed))' => ItemKept]_vars

\* a template with consumes false fired under a rule that consumes, and the
\* actor still holds the item
C18_Witness ==
    /\ events_today # <<>>
    /\ SpecialFired
    /\ LastEvent.type = "item-special"
    /\ TemplateHasFlag /\ ~TemplateMarksConsumed
    /\ RuleMarksConsumed
    /\ Contains(tributes[draw.actor].inventory, LastEvent.meta.item)
\* ---------------------------------------------------------------- C19
\* the victims the special step sampled, as positions in the roster
SampledVictims ==
    LET e == NewEvents[1]
    IN  IF "victims" \in DOMAIN e.meta
        THEN {i \in 1..Len(tributes) : tributes[i].name \in Range(e.meta.victims)}
        ELSE {}

SamplingStep == SpecialStep /\ NewEvents # <<>> /\ SampledVictims # {}

VictimsKilled ==
    /\ \A i \in SampledVictims : tributes[i].alive /\ ~tributes'[i].alive
    /\ tributes'[draw'.actor].kills =
         tributes[draw'.actor].kills + Cardinality(SampledVictims)

VictimsSpared ==
    /\ \A i \in SampledVictims : tributes[i].alive /\ tributes'[i].alive
    /\ tributes'[draw'.actor].kills = tributes[draw'.actor].kills

TemplateLethal ==
    /\ IsDict(ChosenTemplate)
    /\ "lethal" \in DOMAIN ChosenTemplate
    /\ ChosenTemplate.lethal

\* C19 as stated: whenever the special step samples victims, each of them is
\* marked dead and the actor's kills grow by their number.
C19_Original == [][SamplingStep => VictimsKilled]_vars

\* C19: when the special step samples victims for a template whose lethal
\* flag is true, each of them is marked dead and the actor's kills grow by
\* their number; for a template without a true lethal flag (every plain
\* string template) the sampled victims stay alive and the kills unchanged.
C19_SpecialKills ==
    [][SamplingStep =>
         /\ TemplateLethal' => VictimsKilled
         /\ ~TemplateLethal' => VictimsSpared]_vars

\* a lethal special template took two victims at once
C19_Witness ==
    /\ events_today # <<>>
    /\ SpecialFired
    /\ LastEvent.type = "item-special lethal"
    /\ TemplateLethal
    /\ Len(LastEvent.meta.victims) = 2
    /\ \A i \in 1..Len(tributes) :
          tributes[i].name \in Range(LastEvent.meta.victims) => ~tributes[i].alive
    /\ tributes[draw.actor].kills >= 2
\* ---------------------------------------------------------------- C20
FinalEvents == days[Len(days)].events

\* the run returned with a victory event on its final day
Crowned ==
    /\ pc = "done"
    /\ days # <<>>
    /\ FinalEvents # <<>>
    /\ LastIn(FinalEvents).type = "victory"

LastBeforeVictoryLethal ==
    /\ Len(FinalEvents) >= 2
    /\ FinalEvents[Len(FinalEvents) - 1].type \in LethalTypes

\* C20: a slot of the day is entered only with two or more living tributes,
\* so no actor is chosen and no event generated with fewer; on the final day
\* the event before the victory event is a lethal or item-special lethal
\* event; and a day is started only with two or more living tributes.
C20_SlotLoopStops ==
    /\ [](pc = "slots" => AliveCount >= 2)
    /\ [](Crowned => LastBeforeVictoryLethal)
    /\ [][(SlotStep \/ day_counter' # day_counter) => AliveCount >= 2]_vars

\* the final day ended on a kill with part of its budget unused
C20_Witness ==
    /\ Crowned
    /\ LastBeforeVictoryLethal
    /\ slot < daily_target
    /\ AliveCount = 1
\* ---------------------------------------------------------------- C21
NoDuplicates(s) == \A i, j \in 1..Len(s) : s[i] = s[j] => i = j

\* the names of the tributes whose alive flag this step turns from true to false
DiedInStep ==
    {tributes[i].name : i \in {k \in 1..Len(tributes) : tributes[k].alive /\ ~tributes'[k].alive}}

\* the survivors recorded before day k: those of day k - 1, the roster for day 1
SurvivorsBefore(k) == IF k = 1 THEN names ELSE days[k - 1].survivors

\* C21: the fallen list of the open day has no duplicates, starts empty and
\* grows in every step by exactly the tributes that step turned from alive to
\* dead; the day record takes that list as it is; and every record's survivors
\* are the survivors recorded before it (the roster for day 1) without that
\* day's fallen, in roster order.
C21_DayRecord ==
    /\ [](/\ NoDuplicates(fallen_today)
          /\ \A k \in 1..Len(days) :
                /\ NoDuplicates(days[k].fallen)
                /\ days[k].survivors =
                     SelectSeq(SurvivorsBefore(k),
                               LAMBDA n : ~Contains(days[k].fallen, n)))
    /\ [][/\ day_counter' # day_counter => fallen_today' = <<>>
          /\ day_counter' = day_counter =>
                /\ Range(fallen_today') = Range(fallen_today) \cup DiedInStep
                /\ Range(fallen_today) \cap DiedInStep = {}
          /\ Len(days') = Len(days) + 1 =>
                /\ days'[Len(days')].fallen = fallen_today
                /\ tributes' = tributes]_vars

\* two recorded days, each with a death, the first with two tributes left
C21_Witness ==
    /\ Len(days) = 2
    /\ days[1].fallen # <<>>
    /\ days[2].fallen # <<>>
    /\ Len(days[1].survivors) = 2
\* ---------------------------------------------------------------- C22
NonVictory(events) == SelectSeq(events, LAMBDA e : e.type # "victory")

\* C22: within a day every call of generate_event uses up one slot of the
\* budget, with or without an event, so the calls made and the events
\* gathered never exceed the budget determine_event_count gave the day; the
\* record of the day holds no more events than that budget, the victory event
\* of the final day apart.
C22_NoRetry ==
    /\ [](/\ slot <= daily_target
          /\ Len(events_today) <= slot
          /\ pc = "done" /\ days # <<>> =>
                Len(NonVictory(days[Len(days)].events)) <= daily_target)
    /\ [][/\ pc = "slots" =>
                (slot' = slot + 1 /\ Len(events_today') <= Len(events_today) + 1)
          /\ Len(days') = Len(days) + 1 =>
                Len(days'[Len(days')].events) <= daily_target]_vars

\* a day whose budget is used up with fewer events than slots, nobody having
\* won: a slot returned no event and was not made up for
C22_Witness ==
    /\ pc = "endday"
    /\ slot = daily_target
    /\ Len(events_today) < daily_target
    /\ events_today # <<>>
    /\ AliveCount >= 2
\* ---------------------------------------------------------------- C23
\* the names an event gives a part other than the actor's
Involved(e) ==
    (IF "victims" \in DOMAIN e.meta THEN Range(e.meta.victims) ELSE {})
    \cup (IF "others" \in DOMAIN e.meta THEN Range(e.meta.others) ELSE {})

LivingNames == {tributes[i].name : i \in Range(alive)}

\* C23: a dead tribute stays as it is, alive flag, kill count and inventory,
\* in every step; the actor of a slot and the victims and bystanders of its
\* event are tributes that were alive when the slot began, so nobody is
\* killed twice.
C23_DeadStayDead ==
    [][/\ Len(tributes') = Len(tributes)
       /\ \A i \in 1..Len(tributes) : ~tributes[i].alive => tributes'[i] = tributes[i]
       /\ SlotStep =>
             /\ tributes[draw'.actor].alive
             /\ NewEvents # <<>> => Involved(NewEvents[1]) \subseteq LivingNames]_vars

\* a kill among three tributes of whom one had died before
C23_Witness ==
    /\ Len(tributes) = 3
    /\ events_today # <<>>
    /\ draw.step = "lethal"
    /\ Len(LastEvent.meta.victims) = 1
    /\ AliveCount = 1
\* ---------------------------------------------------------------- C24
MetaList(e, key) == IF key \in DOMAIN e.meta THEN e.meta[key] ELSE <<>>

\* C24: the actor of a slot is not among the victims or bystanders of its
\* event and is alive after the slot, the victims of an event are pairwise
\* distinct and so are its bystanders; a run of a roster of one or more never
\* has fewer than one living tribute, and a run of two or more that returns
\* does so with exactly one survivor, the winner.
C24_ActorSurvives ==
    /\ [](/\ Len(names) >= 1 => AliveCount >= 1
          /\ (pc = "done" /\ Len(names) >= 2) =>
                (AliveCount = 1 /\ result.winner = <<tributes[alive[1]].name>>))
    /\ [][SlotStep =>
            /\ tributes'[draw'.actor].alive
            /\ NewEvents # <<>> =>
                  /\ tributes[draw'.actor].name \notin Involved(NewEvents[1])
                  /\ NoDuplicates(MetaList(NewEvents[1], "victims"))
                  /\ NoDuplicates(MetaList(NewEvents[1], "others"))]_vars

\* an event with two victims left its actor as the only survivor, and the run
\* returned
C24_Witness ==
    /\ pc = "done"
    /\ Len(names) = 3
    /\ AliveCount = 1
    /\ \E e \in Range(days[Len(days)].events) :
          /\ e.type \in LethalTypes
          /\ Len(e.meta.victims) = 2
          /\ tributes[alive[1]].name \notin Range(e.meta.victims)
\* ---------------------------------------------------------------- C25
EnsureCalled == probe.op = "ensure_victim_keys" /\ probe.called
LethalNormalized == probe.op = "normalize_lethal_entry" /\ probe.called
SpecialNormalized == probe.op = "normalize_special_event" /\ probe.called

\* the numbers of living non-actors a slot can find
CandidateCounts == 1..(MaxAlive - 1)

\* C25: a record of normalize_lethal_entry has a victim count of one or more
\* and as many victim keys; ensure_victim_keys, given distinct base keys and a
\* count, returns exactly count names, pairwise distinct; so the lethal step,
\* which samples min(count, candidates) or one victim, and the special step,
\* which samples count victims or none, index the keys within their length.
C25_VictimKeys ==
    /\ EnsureCalled =>
          /\ Len(probe.value) = probe.count
          /\ NoDuplicates(probe.value)
    /\ LethalNormalized =>
          /\ probe.first.victim_count >= 1
          /\ Len(probe.first.victim_keys) = probe.first.victim_count
          /\ NoDuplicates(probe.first.victim_keys)
          /\ \A c \in CandidateCounts :
                LethalVictimCount(probe.first.victim_count, c)
                    <= Len(probe.first.victim_keys)
    /\ SpecialNormalized =>
          \A c \in CandidateCounts :
              SpecialCast(probe.first.victim_count, c)
                  <= Len(ensure_victim_keys(probe.first.victim_keys,
                                            probe.first.victim_count))

\* a base key that is also a generated name: the keys are filled up around it
C25_Witness ==
    /\ EnsureCalled
    /\ probe.base_keys = <<"victim2">>
    /\ probe.count = 3
    /\ probe.value = <<"victim2", "victim", "victim3">>
====
